---- MODULE Spec2Model ----
(***************************************************************************)
(* Model of src/image_reader.py: the one-node extraction workflow          *)
(* (build_extraction_graph / extract_data_node), the stand-alone Loader    *)
(* (load_and_encode_image), the BillExtraction schema and its model_dump.  *)
(*                                                                         *)
(* Python strings are modelled as sequences of tokens, so that f-string    *)
(* concatenation is \o and "starts with" is a test on the first token.     *)
(* Optional values are [none |-> TRUE] or a one-field record.              *)
(***************************************************************************)
EXTENDS Integers, Sequences, FiniteSets, TLC

(***************************************************************************)
(* Bounds                                                                  *)
(***************************************************************************)
MaxFileLen == 2
MaxRuns == 2

(***************************************************************************)
(* Values                                                                  *)
(***************************************************************************)
None == [none |-> TRUE]
Str(s) == [str |-> s]
Num(n) == [num |-> n]

\* Python truthiness of an Optional[str]: None and "" are falsy.
Truthy(v) == v # None /\ v # Str(<<>>)

MODEL_NAME == <<"gemini-2.5-flash">>

\* class Provider .. class BillExtraction: section |-> its leaf fields.
Sections == {"provider", "document", "customer", "financials", "period_and_usage"}

Schema ==
    [s \in Sections |->
        CASE s = "provider"   -> {"name", "contact_info"}
          [] s = "document"   -> {"type", "number", "issue_date"}
          [] s = "customer"   -> {"name", "client_id", "tax_id", "address"}
          [] s = "financials" -> {"total_amount", "currency", "due_date", "status"}
          [] OTHER            -> {"billing_period_start", "billing_period_end",
                                  "cutoff_date", "tariff_type"}]

Leaves == UNION {{<<s, f>> : f \in Schema[s]} : s \in Sections}

\* A populated leaf: total_amount is Optional[float], every other leaf Optional[str].
Populated(l) == IF l = <<"financials", "total_amount">> THEN Num(45990)
                ELSE Str(<<l[2]>>)

\* A BillExtraction instance: attribute access section.field, every leaf set.
BillExtraction(nulls) == [l \in Leaves |-> IF l \in nulls THEN None ELSE Populated(l)]

\* class AgentState(TypedDict); an absent key reads as None through .get().
AgentState(path, data, err) == [image_path |-> path, extracted_data |-> data, error |-> err]

(***************************************************************************)
(* base64.b64encode(...).decode("utf-8")                                   *)
(***************************************************************************)
Alphabet ==
    <<"A","B","C","D","E","F","G","H","I","J","K","L","M","N","O","P",
      "Q","R","S","T","U","V","W","X","Y","Z","a","b","c","d","e","f",
      "g","h","i","j","k","l","m","n","o","p","q","r","s","t","u","v",
      "w","x","y","z","0","1","2","3","4","5","6","7","8","9","+","/">>

Sextet(n) == Alphabet[(n % 64) + 1]

RECURSIVE b64encode(_)
b64encode(bytes) ==
    IF Len(bytes) = 0 THEN <<>>
    ELSE IF Len(bytes) = 1 THEN
        <<Sextet(bytes[1] \div 4), Sextet((bytes[1] % 4) * 16), "=", "=">>
    ELSE IF Len(bytes) = 2 THEN
        <<Sextet(bytes[1] \div 4),
          Sextet((bytes[1] % 4) * 16 + bytes[2] \div 16),
          Sextet((bytes[2] % 16) * 4), "=">>
    ELSE
        <<Sextet(bytes[1] \div 4),
          Sextet((bytes[1] % 4) * 16 + bytes[2] \div 16),
          Sextet((bytes[2] % 16) * 4 + bytes[3] \div 64),
          Sextet(bytes[3] % 64)>>
        \o b64encode(SubSeq(bytes, 4, Len(bytes)))


(***************************************************************************)
(* The environment of a run: the file behind image_path, the substituted   *)
(* model, and whether the client can be constructed.                       *)
(***************************************************************************)
Paths == {"bill.png", "scan.jpg"}
Bytes == {77, 255}

RECURSIVE SeqsUpTo(_, _)
SeqsUpTo(S, n) ==
    IF n = 0 THEN {<<>>}
    ELSE LET shorter == SeqsUpTo(S, n - 1)
         IN  shorter \cup {Append(q, x) : q \in shorter, x \in S}

Contents == SeqsUpTo(Bytes, MaxFileLen)

\* What open()/read() do with the path: no such file, no permission,
\* a handle whose read fails, or a handle that yields the bytes.
FileStatuses ==
    {[kind |-> "missing"], [kind |-> "denied"], [kind |-> "readerr"]}
        \cup {[kind |-> "ok", bytes |-> b] : b \in Contents}

\* Null patterns of the records the substituted model returns: fully populated,
\* all null, and one null leaf in each section.
NullMasks ==
    {{}, Leaves,
     {<<"provider", "contact_info">>},
     {<<"document", "issue_date">>},
     {<<"customer", "tax_id">>},
     {<<"financials", "total_amount">>},
     {<<"period_and_usage", "cutoff_date">>}}

\* What llm.invoke does: returns a BillExtraction, returns nothing, or raises.
StubOutcomes ==
    {[kind |-> "ok", rec |-> BillExtraction(m)] : m \in NullMasks}
        \cup {[kind |-> "nothing"]}
        \cup {[kind |-> "raise", msg |-> <<m>>] :
                m \in {"transport error", "provider error", "validation error"}}

CtorOutcomes == {"ok", "raise"}

OldRecord == [dict |-> [s \in Sections |-> [f \in Schema[s] |-> Str(<<"old">>)]]]

\* The states a caller can hand to app.invoke / extract_data_node.
Inputs ==
    {AgentState(p, d, e) :
        p \in Paths,
        d \in {None, OldRecord},
        e \in {None, Str(<<>>), Str(<<"Failed to load image: ", "earlier">>)}}

(***************************************************************************)
(* str(e) of the exceptions the code can meet                              *)
(***************************************************************************)
OpenError(f, path) ==
    IF f.kind = "missing" THEN <<"[Errno 2] No such file or directory: ", path>>
    ELSE <<"[Errno 13] Permission denied: ", path>>

ReadError == <<"[Errno 5] Input/output error">>

NoneTypeError == <<"'NoneType' object has no attribute 'model_dump'">>

(***************************************************************************)
(* Pure parts of the code                                                  *)
(***************************************************************************)
\* LangGraph applies a node's returned update to the state, key by key.
ApplyUpdate(s, u) ==
    [k \in DOMAIN s |-> IF k \in DOMAIN u THEN u[k] ELSE s[k]]

\* model_dump(exclude_none=True): null leaves lose their key.
model_dump_exclude_none(rec) ==
    [dict |-> [s \in Sections |->
                [f \in {g \in Schema[s] : rec[<<s, g>>] # None} |-> rec[<<s, f>>]]]]

\* response.model_dump(): every field of every sub-model becomes a key.
model_dump(rec) ==
    [dict |-> [s \in Sections |-> [f \in Schema[s] |-> rec[<<s, f>>]]]]

\* the error check of line 89 left out.
HasErrorUnchecked(s) == FALSE

\* line 89: if state.get("error")
HasError(s) == Truthy(s.error)

\* line 134: return {"extracted_data": response.model_dump()}
SuccessUpdate(rec) == [extracted_data |-> model_dump(rec)]

\* the except clause also hands back an (empty) record.
ExceptUpdatePartial(cause) ==
    [error |-> Str(<<"Extraction failed: ">> \o cause), extracted_data |-> [dict |-> <<>>]]

\* line 137: return {"error": f"Extraction failed: {str(e)}"}
ExceptUpdate(cause) == [error |-> Str(<<"Extraction failed: ">> \o cause)]

\* lines 120-128: the HumanMessage sent to the model.
HumanMessage(b64) ==
    [text |-> "system_instruction",
     image_url |-> <<"data:image/jpeg;base64,">> \o b64]

\* a failed model call is tried once more.
AfterExceptRetry(n) == IF n = 1 THEN "invoke" ELSE "END"

\* lines 136-137: the except clause returns; nothing is tried again.
AfterExcept(n) == "END"

\* the handle is not released (open() without with / close()).
ExitWithLeak(h) == h

\* leaving the with block of lines 117-118 releases the handle.
ExitWith(h) == h - 1

\* the previous run's state object is reused, only image_path is reset.
InitialStateReused(inp, prev) ==
    [prev EXCEPT !.image_path = inp.image_path]

\* app.invoke(input): the run's state is built from the input alone.
InitialState(inp, prev) == inp

\* the Loader without its try/except: a failing open or read propagates.
load_and_encode_image_unguarded(s, f) ==
    IF f.kind = "ok"
      THEN [ret |-> [image_data |-> b64encode(f.bytes)], state |-> s, raised |-> FALSE]
      ELSE [ret |-> None, state |-> s, raised |-> TRUE]

\* load_and_encode_image(state): what it returns, and the state afterwards.
load_and_encode_image(s, f) ==
    IF f.kind = "ok"
      THEN [ret |-> [image_data |-> b64encode(f.bytes)], state |-> s, raised |-> FALSE]
      ELSE [ret |-> [error |-> Str(<<"Failed to load image: ">> \o
                        (IF f.kind = "readerr" THEN ReadError
                         ELSE OpenError(f, s.image_path)))],
            state |-> s, raised |-> FALSE]


(***************************************************************************)
(* State                                                                   *)
(***************************************************************************)
VARIABLES
    file,         \* environment: what open/read of image_path do
    stub,         \* environment: what llm.invoke does
    ctor,         \* environment: whether ChatGoogleGenerativeAI(...) can be built
    input,        \* the state handed to app.invoke
    run,          \* invocations of the workflow started so far
    pc,           \* position inside the current run
    state,        \* the workflow state (AgentState) of the current run
    fh,           \* file handles currently open
    opened,       \* file handles acquired during the current run
    ctors,        \* model clients constructed during the current run
    invokes,      \* llm.invoke calls made during the current run
    image_b64,    \* local of extract_data_node
    request,      \* the message last sent to the model
    entryStates,  \* the state extract_data_node received, per run
    results,      \* what app.invoke gave back, per run
    lstate,       \* the state object handed to load_and_encode_image
    loaderRet     \* what load_and_encode_image gave back

vars == <<file, stub, ctor, input, run, pc, state, fh, opened, ctors, invokes,
          image_b64, request, entryStates, results, lstate, loaderRet>>

env == <<file, stub, ctor, input>>
loader == <<lstate, loaderRet>>

Raised == [raised |-> TRUE]
NotCalled == [notcalled |-> TRUE]

Resting == {"idle", "END", "raised"}

Init ==
    /\ file \in FileStatuses
    /\ stub \in StubOutcomes
    /\ ctor \in CtorOutcomes
    /\ input \in Inputs
    /\ run = 0
    /\ pc = "idle"
    /\ state = input
    /\ fh = 0
    /\ opened = 0
    /\ ctors = 0
    /\ invokes = 0
    /\ image_b64 = <<>>
    /\ request = None
    /\ entryStates = <<>>
    /\ results = <<>>
    /\ lstate = input
    /\ loaderRet = NotCalled

(***************************************************************************)
(* The workflow: entry point -> "extract" -> END                           *)
(***************************************************************************)
\* app.invoke(input): a new run; the graph enters its only node.
Invoke ==
    /\ pc \in Resting
    /\ run < MaxRuns
    /\ run' = run + 1
    /\ state' = InitialState(input, state)
    /\ entryStates' = Append(entryStates, state')
    /\ pc' = "extract"
    /\ opened' = 0 /\ ctors' = 0 /\ invokes' = 0
    /\ image_b64' = <<>>
    /\ request' = None
    /\ UNCHANGED <<env, fh, results, loader>>

\* The node returned `update`; the graph applies it and follows the edge `to`.
Return(update, to) ==
    /\ state' = ApplyUpdate(state, update)
    /\ pc' = to
    /\ results' = IF to = "END" THEN Append(results, state') ELSE results

\* The except clause of extract_data_node.
Except(cause) == Return(ExceptUpdate(cause), AfterExcept(invokes))

\* lines 89-90: an error is already recorded; the node returns the state.
ShortCircuit ==
    /\ pc = "extract"
    /\ HasError(state)
    /\ Return(state, "END")
    /\ UNCHANGED <<env, run, fh, opened, ctors, invokes, image_b64, request,
                   entryStates, loader>>

\* lines 93-96: the client is built, outside the try block.
ConstructLlm ==
    /\ pc = "extract"
    /\ ~HasError(state)
    /\ ctor = "ok"
    /\ ctors' = ctors + 1
    /\ pc' = "try"
    /\ UNCHANGED <<env, run, state, fh, opened, invokes, image_b64, request,
                   entryStates, results, loader>>

\* lines 93-96: the constructor raises; nothing catches it, app.invoke raises.
ConstructRaises ==
    /\ pc = "extract"
    /\ ~HasError(state)
    /\ ctor = "raise"
    /\ pc' = "raised"
    /\ results' = Append(results, Raised)
    /\ UNCHANGED <<env, run, state, fh, opened, ctors, invokes, image_b64,
                   request, entryStates, loader>>

\* line 117: open(state["image_path"], "rb") succeeds.
OpenFile ==
    /\ pc = "try"
    /\ file.kind \in {"ok", "readerr"}
    /\ fh' = fh + 1
    /\ opened' = opened + 1
    /\ pc' = "read"
    /\ UNCHANGED <<env, run, state, ctors, invokes, image_b64, request,
                   entryStates, results, loader>>

\* line 117: open raises; no handle was acquired.
OpenFails ==
    /\ pc = "try"
    /\ file.kind \in {"missing", "denied"}
    /\ Except(OpenError(file, state.image_path))
    /\ UNCHANGED <<env, run, fh, opened, ctors, invokes, image_b64, request,
                   entryStates, loader>>

\* line 118: read and encode, inside the with block.
ReadAndEncode ==
    /\ pc = "read"
    /\ file.kind = "ok"
    /\ image_b64' = b64encode(file.bytes)
    /\ pc' = "exit"
    /\ UNCHANGED <<env, run, state, fh, opened, ctors, invokes, request,
                   entryStates, results, loader>>

\* line 118: read raises; the with block releases the handle on the way out.
ReadFails ==
    /\ pc = "read"
    /\ file.kind = "readerr"
    /\ fh' = ExitWith(fh)
    /\ Except(ReadError)
    /\ UNCHANGED <<env, run, opened, ctors, invokes, image_b64, request,
                   entryStates, loader>>

\* end of the with block of lines 117-118.
ExitWithBlock ==
    /\ pc = "exit"
    /\ fh' = ExitWith(fh)
    /\ pc' = "invoke"
    /\ UNCHANGED <<env, run, state, opened, ctors, invokes, image_b64, request,
                   entryStates, results, loader>>

\* lines 120-131: the message is built and llm.invoke is called; the call blocks.
InvokeModel ==
    /\ pc = "invoke"
    /\ request' = HumanMessage(image_b64)
    /\ invokes' = invokes + 1
    /\ pc' = "blocked"
    /\ UNCHANGED <<env, run, state, fh, opened, ctors, image_b64, entryStates,
                   results, loader>>

\* lines 131-134: the model answers with a BillExtraction.
ModelReturns ==
    /\ pc = "blocked"
    /\ stub.kind = "ok"
    /\ Return(SuccessUpdate(stub.rec), "END")
    /\ UNCHANGED <<env, run, fh, opened, ctors, invokes, image_b64, request,
                   entryStates, loader>>

\* lines 131-137: the model answers with nothing; model_dump on None raises.
ModelReturnsNothing ==
    /\ pc = "blocked"
    /\ stub.kind = "nothing"
    /\ Except(NoneTypeError)
    /\ UNCHANGED <<env, run, fh, opened, ctors, invokes, image_b64, request,
                   entryStates, loader>>

\* lines 131-137: transport, provider or validation error inside llm.invoke.
ModelRaises ==
    /\ pc = "blocked"
    /\ stub.kind = "raise"
    /\ Except(stub.msg)
    /\ UNCHANGED <<env, run, fh, opened, ctors, invokes, image_b64, request,
                   entryStates, loader>>

(***************************************************************************)
(* The Loader, which no node of the graph calls                            *)
(***************************************************************************)
CallLoader ==
    /\ pc \in Resting
    /\ loaderRet = NotCalled
    /\ LET r == load_and_encode_image(lstate, file)
       IN  /\ lstate' = r.state
           /\ loaderRet' = IF r.raised THEN Raised ELSE r.ret
    /\ UNCHANGED <<env, run, pc, state, fh, opened, ctors, invokes, image_b64,
                   request, entryStates, results>>

Next ==
    \/ Invoke
    \/ ShortCircuit
    \/ ConstructLlm
    \/ ConstructRaises
    \/ OpenFile
    \/ OpenFails
    \/ ReadAndEncode
    \/ ReadFails
    \/ ExitWithBlock
    \/ InvokeModel
    \/ ModelReturns
    \/ ModelReturnsNothing
    \/ ModelRaises
    \/ CallLoader

Spec == Init /\ [][Next]_vars

(***************************************************************************)
(* Vocabulary of the properties                                            *)
(***************************************************************************)
\* PENDING -> {SUCCESS, FAILURE}; RAISED is app.invoke ending in an exception.
status ==
    CASE pc = "END" /\ Truthy(state.error)  -> "FAILURE"
      [] pc = "END" /\ ~Truthy(state.error) -> "SUCCESS"
      [] pc = "raised"                      -> "RAISED"
      [] OTHER                              -> "PENDING"

StartsWith(v, prefix) == v # None /\ Len(v.str) >= 1 /\ v.str[1] = prefix

FileExists == file.kind # "missing"
Readable == file.kind = "ok"
OnlyImagePath == input.error = None /\ input.extracted_data = None

TypeOK ==
    /\ file \in FileStatuses /\ stub \in StubOutcomes /\ ctor \in CtorOutcomes
    /\ input \in Inputs
    /\ run \in 0..MaxRuns
    /\ pc \in {"idle", "extract", "try", "read", "exit", "invoke", "blocked",
               "END", "raised"}
    /\ fh \in 0..1 /\ opened \in 0..1 /\ ctors \in 0..1 /\ invokes \in 0..1
    /\ Len(results) <= run /\ Len(entryStates) = run


\* Inverse of b64encode, used to state that the payload is the file's bytes.
Index(c) == CHOOSE i \in 0..63 : Alphabet[i + 1] = c

RECURSIVE b64decode(_)
b64decode(chars) ==
    IF Len(chars) < 4 THEN <<>>
    ELSE LET a == Index(chars[1])
             b == Index(chars[2])
             first == a * 4 + b \div 16
         IN  IF chars[3] = "=" THEN <<first>>
             ELSE LET c == Index(chars[3])
                      second == (b % 16) * 16 + c \div 4
                  IN  IF chars[4] = "=" THEN <<first, second>>
                      ELSE <<first, second, (c % 4) * 64 + Index(chars[4])>>
                               \o b64decode(SubSeq(chars, 5, Len(chars)))

\* The state extract_data_node received in the current run.
Entry == entryStates[run]
Started == run >= 1

\* The run began with a non-empty error already recorded.
PriorError == Truthy(Entry.error)

(***************************************************************************)
(* Claims                                                                  *)
(***************************************************************************)

\* C1: when image_path names no existing file, a run started with only
\* image_path set ends with an error that starts with "Failed to load image: "
\* and the model was not invoked.
C1_MissingFileIsLoadError ==
    (pc = "END" /\ OnlyImagePath /\ ~FileExists)
        => /\ StartsWith(state.error, "Failed to load image: ")
           /\ invokes = 0

\* C2: every failure inside the Extractor step (client construction, file
\* re-read, model call, validation) is captured: the run never ends in an
\* exception, and it ends with error = "Extraction failed: " + message.
C2_EveryFailureCaptured ==
    (/\ pc \in {"END", "raised"}
     /\ ~PriorError
     /\ (ctor = "raise" \/ ~Readable \/ stub.kind # "ok"))
        => /\ pc = "END"
           /\ StartsWith(state.error, "Extraction failed: ")

\* C3: when the state already carries a non-empty error, extract_data_node
\* returns it unchanged in every field, and neither opens the file nor
\* constructs or invokes the model.
C3_ShortCircuit ==
    (Started /\ PriorError)
        => /\ state = Entry
           /\ opened = 0 /\ fh = 0
           /\ ctors = 0 /\ invokes = 0
           /\ pc \in {"extract", "END"}
           /\ (pc = "END" => results[run] = Entry)

C3_Witness ==
    /\ pc = "END" /\ Started /\ PriorError
    /\ Entry.extracted_data # None

\* C4: for a readable image and a schema-conforming record returned by the
\* model, extracted_data has exactly the schema's keys and, leaf for leaf, the
\* record's values; a null leaf is present with value null.
C4_PassThrough ==
    (pc = "END" /\ Started /\ ~PriorError /\ Readable /\ stub.kind = "ok")
        => /\ state.extracted_data # None
           /\ LET d == state.extracted_data.dict
              IN  /\ DOMAIN d = Sections
                  /\ \A s \in Sections :
                        /\ DOMAIN d[s] = Schema[s]
                        /\ \A f \in Schema[s] : d[s][f] = stub.rec[<<s, f>>]
           /\ results[run] = state

C4_Witness ==
    /\ pc = "END" /\ Started /\ ~PriorError /\ Readable /\ stub.kind = "ok"
    /\ stub.rec[<<"provider", "contact_info">>] = None
    /\ stub.rec[<<"provider", "name">>] # None
    /\ state.extracted_data.dict["provider"]["contact_info"] = None

\* C5: a run is PENDING until one transition takes it to SUCCESS or FAILURE;
\* there is no other state, and a finished run stays where it is.
C5_TwoOutcomes ==
    [][/\ status' \in {"PENDING", "SUCCESS", "FAILURE"}
       /\ (run' = run /\ status # "PENDING") => (status' = status /\ state' = state)]_vars

\* C6: llm.invoke is called at most once per run; a run whose call failed
\* ends without a second call, and a run that ends in SUCCESS made exactly one.
C6_AtMostOneInvocation ==
    /\ invokes <= 1
    /\ (Started /\ status = "SUCCESS") => invokes = 1
    /\ (pc = "END" /\ invokes = 1 /\ stub.kind # "ok") => status = "FAILURE"

C6_Witness ==
    /\ pc = "END" /\ invokes = 1
    /\ stub.kind = "raise"
    /\ status = "FAILURE"

\* C7 (as stated): on every path to a terminal state the image file has been
\* opened exactly once and no handle is open, nor is one while the model
\* call is in progress.
C7_ExactlyOneHandle ==
    /\ (pc = "END" /\ ~PriorError) => (opened = 1 /\ fh = 0)
    /\ pc = "blocked" => fh = 0

\* C7 (amended): at most one handle is acquired per run and every acquired
\* handle is released before the model call and before the run ends; a run
\* that reaches the open acquires exactly one when open() succeeds and none
\* when open() itself fails.
C7_ScopedHandle ==
    /\ opened <= 1
    /\ fh = (IF pc \in {"read", "exit"} THEN 1 ELSE 0)
    /\ (pc \in {"invoke", "blocked"}) => opened = 1
    /\ (pc = "END" /\ ~PriorError)
          => opened = (IF file.kind \in {"ok", "readerr"} THEN 1 ELSE 0)
    /\ (pc \in {"END", "raised"} /\ (PriorError \/ ctor = "raise")) => opened = 0

C7_Witness ==
    /\ pc = "END" /\ opened = 1 /\ fh = 0
    /\ invokes = 1

\* C8: invocations with the same input, file and model response give the
\* same output, and each starts from the input alone: the state the node
\* receives carries nothing of an earlier run.
C8_Idempotent ==
    /\ \A i, j \in 1..Len(results) : results[i] = results[j]
    /\ \A i \in 1..Len(entryStates) : entryStates[i] = input

C8_Witness ==
    /\ Len(results) >= 2
    /\ pc = "END"
    /\ results[1] # input
    /\ results[2] = results[1]

\* C9: load_and_encode_image never raises; for a file it cannot open or read
\* it returns only error = "Failed to load image: " + cause, for a readable
\* file only the base64 payload of the file's bytes; the state it was given
\* is left as it was.
C9_LoaderTotal ==
    (loaderRet # NotCalled)
        => /\ loaderRet # Raised
           /\ lstate = input
           /\ Readable =>
                /\ DOMAIN loaderRet = {"image_data"}
                /\ b64decode(loaderRet.image_data) = file.bytes
                /\ Len(loaderRet.image_data) = 4 * ((Len(file.bytes) + 2) \div 3)
           /\ ~Readable =>
                /\ DOMAIN loaderRet = {"error"}
                /\ StartsWith(loaderRet.error, "Failed to load image: ")
                /\ Tail(loaderRet.error.str) =
                      (IF file.kind = "readerr" THEN ReadError
                       ELSE OpenError(file, input.image_path))

C9_Witness ==
    /\ loaderRet # NotCalled
    /\ file.kind = "denied"
    /\ input.extracted_data # None

\* C10: a run started with only image_path set ends with exactly one of
\* error and extracted_data non-null.
C10_NoPartialResult ==
    (pc = "END" /\ OnlyImagePath)
        => /\ (state.error # None) # (state.extracted_data # None)
           /\ results[run] = state

C10_Witness ==
    /\ pc = "END" /\ OnlyImagePath
    /\ state.error # None
    /\ state.extracted_data = None
    /\ invokes = 1

====
